---- MODULE Spec2Model ----
(***************************************************************************)
(* Model of the C++ guideline scripts: the rewriting passes of             *)
(* scripts/modernize_code.py, the detectors of                             *)
(* scripts/detect_violations.py, the drivers that call them, and the       *)
(* linter runner of scripts/run_clang_tidy.py.                             *)
(* A source line is a string; the regular expressions of the scripts are   *)
(* operators over the characters of the line.                              *)
(***************************************************************************)
EXTENDS Integers, Sequences, FiniteSets, TLC

(***************************************************************************)
(* Characters and the character classes of Python's re module.             *)
(***************************************************************************)
Lower == {"a", "b", "c", "d", "e", "f", "g", "h", "i", "j", "k", "l", "m",
          "n", "o", "p", "q", "r", "s", "t", "u", "v", "w", "x", "y", "z"}

Upper == {"A", "B", "C", "D", "E", "F", "G", "H", "I", "J", "K", "L", "M",
          "N", "O", "P", "Q", "R", "S", "T", "U", "V", "W", "X", "Y", "Z"}

Digit == {"0", "1", "2", "3", "4", "5", "6", "7", "8", "9"}

\* \w
WordCh == Lower \cup Upper \cup Digit \cup {"_"}

\* \s
SpaceCh == {" ", "\t", "\n", "\r", "\f"}

\* the character of s at position i, "" outside the string
At(s, i) == IF i >= 1 /\ i <= Len(s) THEN SubSeq(s, i, i) ELSE ""

\* the literal w stands in s at position i
Lit(s, i, w) == i >= 1 /\ i + Len(w) - 1 <= Len(s) /\ SubSeq(s, i, i + Len(w) - 1) = w

\* w in s
Contains(s, w) == \E i \in 1..(Len(s) - Len(w) + 1) : Lit(s, i, w)

\* s.find(w) + 1: the first position of w in s, 0 when there is none
RECURSIVE FindFrom(_, _, _)
FindFrom(s, w, i) ==
    IF i + Len(w) - 1 > Len(s) THEN 0
    ELSE IF Lit(s, i, w) THEN i
    ELSE FindFrom(s, w, i + 1)

Find(s, w) == FindFrom(s, w, 1)

\* C*: the first position at or after i whose character is not in C
RECURSIVE Skip(_, _, _)
Skip(s, i, C) == IF At(s, i) \in C THEN Skip(s, i + 1, C) ELSE i

\* the first position at or after i whose character is in C, Len(s) + 1 when none
RECURSIVE Upto(_, _, _)
Upto(s, i, C) == IF i > Len(s) \/ At(s, i) \in C THEN i ELSE Upto(s, i + 1, C)

From(s, i) == SubSeq(s, i, Len(s))

\* str.replace(old, new, 1)
ReplaceFirst(s, old, new) ==
    IF Find(s, old) = 0 THEN s
    ELSE SubSeq(s, 1, Find(s, old) - 1) \o new \o From(s, Find(s, old) + Len(old))

\* str.strip()
RECURSIVE RStripEnd(_, _)
RStripEnd(s, j) == IF j >= 1 /\ At(s, j) \in SpaceCh THEN RStripEnd(s, j - 1) ELSE j

Strip(s) == SubSeq(s, Skip(s, 1, SpaceCh), RStripEnd(s, Len(s)))

(***************************************************************************)
(* scripts/modernize_code.py: the regular expressions of the four passes.  *)
(* A matcher returns the position after the match, 0 when it fails.        *)
(***************************************************************************)

\* \bNULL\b at position i
NullAt(s, i) ==
    /\ Lit(s, i, "NULL")
    /\ At(s, i - 1) \notin WordCh
    /\ At(s, i + 4) \notin WordCh

\* re.search(r'\bNULL\b', s)
HasNull(s) == \E i \in 1..Len(s) : NullAt(s, i)

\* re.sub(r'\bNULL\b', 'nullptr', s), scanning from position i
RECURSIVE SubNullFrom(_, _)
SubNullFrom(s, i) ==
    IF i > Len(s) THEN ""
    ELSE IF NullAt(s, i) THEN "nullptr" \o SubNullFrom(s, i + 4)
    ELSE At(s, i) \o SubNullFrom(s, i + 1)

SubNull(s) == SubNullFrom(s, 1)

\* \s+(\w+)\s*; at position p: <<start of the name, position after it, position after ;>>
TypedefTail(s, p) ==
    LET n == Skip(s, p, SpaceCh)
        m == Skip(s, n, WordCh)
        q == Skip(s, m, SpaceCh)
    IN  IF n > p /\ m > n /\ At(s, q) = ";" THEN <<n, m, q + 1>> ELSE <<0, 0, 0>>

\* (.+?) from g: the least end e >= g, with no newline in g..e, after which the
\* tail matches; 0 when there is none
RECURSIVE TypedefLazy(_, _, _)
TypedefLazy(s, g, e) ==
    IF e > Len(s) \/ At(s, e) = "\n" THEN 0
    ELSE IF TypedefTail(s, e + 1)[1] # 0 THEN e
    ELSE TypedefLazy(s, g, e + 1)

\* typedef\s+ then (.+?): \s+ is greedy and gives back one character at a time,
\* g runs down from the end of the white space to t + 1
RECURSIVE TypedefGreedy(_, _, _)
TypedefGreedy(s, t, g) ==
    IF g <= t THEN <<0, 0>>
    ELSE IF TypedefLazy(s, g, g) # 0 THEN <<g, TypedefLazy(s, g, g)>>
    ELSE TypedefGreedy(s, t, g - 1)

\* re.match(r'(\s*)typedef\s+(.+?)\s+(\w+)\s*;', s): the groups, or matched FALSE
TypedefMatch(s) ==
    LET a  == Skip(s, 1, SpaceCh)
        t  == a + 7
        ge == TypedefGreedy(s, t, Skip(s, t, SpaceCh))
        tl == TypedefTail(s, ge[2] + 1)
    IN  IF Lit(s, a, "typedef") /\ ge[1] # 0
        THEN [matched  |-> TRUE,
              indent   |-> SubSeq(s, 1, a - 1),
              old_type |-> SubSeq(s, ge[1], ge[2]),
              new_name |-> SubSeq(s, tl[1], tl[2] - 1)]
        ELSE [matched |-> FALSE, indent |-> "", old_type |-> "", new_name |-> ""]

\* =\s*0\s*; at position i: the position after the match, 0 when it fails
ZeroAt(s, i) ==
    LET z == Skip(s, i + 1, SpaceCh)
        q == Skip(s, z + 1, SpaceCh)
    IN  IF At(s, i) = "=" /\ At(s, z) = "0" /\ At(s, q) = ";" THEN q + 1 ELSE 0

\* \*\s*\w+\s*=\s*0\s*; at position i
PtrZeroAt(s, i) ==
    LET n == Skip(s, i + 1, SpaceCh)
        m == Skip(s, n, WordCh)
        e == Skip(s, m, SpaceCh)
    IN  At(s, i) = "*" /\ m > n /\ ZeroAt(s, e) # 0

\* re.search(r'\*\s*\w+\s*=\s*0\s*;', s)
HasPtrZero(s) == \E i \in 1..Len(s) : PtrZeroAt(s, i)

\* re.sub(r'=\s*0\s*;', '= nullptr;', s), scanning from position i
RECURSIVE SubZeroFrom(_, _)
SubZeroFrom(s, i) ==
    IF i > Len(s) THEN ""
    ELSE IF ZeroAt(s, i) # 0 THEN "= nullptr;" \o SubZeroFrom(s, ZeroAt(s, i))
    ELSE At(s, i) \o SubZeroFrom(s, i + 1)

SubZero(s) == SubZeroFrom(s, 1)

\* re.match(r'\s*(class|struct)\s+\w+', s)
IsTypeOpener(s) ==
    LET a == Skip(s, 1, SpaceCh)
        k == IF Lit(s, a, "class") THEN a + 5
             ELSE IF Lit(s, a, "struct") THEN a + 6 ELSE 0
    IN  k # 0 /\ Skip(s, k, SpaceCh) > k /\ At(s, Skip(s, k, SpaceCh)) \in WordCh

\* re.match(r'\s*<label>\s*:', s)
IsLabel(s, label) ==
    LET a == Skip(s, 1, SpaceCh)
    IN  Lit(s, a, label) /\ At(s, Skip(s, a + Len(label), SpaceCh)) = ":"

\* re.match(r'\s*}\s*;', s)
IsTypeEnd(s) ==
    LET a == Skip(s, 1, SpaceCh)
    IN  At(s, a) = "}" /\ At(s, Skip(s, a + 1, SpaceCh)) = ";"

\* re.match(r'(\s*)(\w+)\s*\(\s*\w+[^,)]*\)\s*[:{;]', s): group 1, or matched FALSE
CtorMatch(s) ==
    LET a == Skip(s, 1, SpaceCh)
        m == Skip(s, a, WordCh)
        o == Skip(s, m, SpaceCh)
        w == Skip(s, o + 1, SpaceCh)
        c == Upto(s, w, {",", ")"})
        e == Skip(s, c + 1, SpaceCh)
    IN  IF /\ m > a
           /\ At(s, o) = "("
           /\ At(s, w) \in WordCh
           /\ At(s, c) = ")"
           /\ At(s, e) \in {":", "{", ";"}
        THEN [matched |-> TRUE, indent |-> SubSeq(s, 1, a - 1)]
        ELSE [matched |-> FALSE, indent |-> ""]

(***************************************************************************)
(* scripts/detect_violations.py: the detectors.                            *)
(***************************************************************************)
Critical == "CRITICAL"

Important == "IMPORTANT"

Suggestion == "SUGGESTION"

Violation(filepath, i, column, severity, rule, message, line) ==
    [file |-> filepath, line |-> i, column |-> column, severity |-> severity,
     rule |-> rule, message |-> message, code_snippet |-> Strip(line)]

\* line.split('//')[0] when '//' is in the line, else the line
CodePart(line) ==
    IF Contains(line, "//") THEN SubSeq(line, 1, Find(line, "//") - 1) ELSE line

\* the violations of all lines, in line order; perLine[i] are those of line i
RECURSIVE Flatten(_)
Flatten(perLine) ==
    IF Len(perLine) = 0 THEN <<>> ELSE Head(perLine) \o Flatten(Tail(perLine))

\* re.search(r'\bnew\s+\w+', s)
HasNew(s) ==
    \E i \in 1..Len(s) :
        /\ Lit(s, i, "new")
        /\ At(s, i - 1) \notin WordCh
        /\ Skip(s, i + 3, SpaceCh) > i + 3
        /\ At(s, Skip(s, i + 3, SpaceCh)) \in WordCh

\* re.search(r'\bdelete\s+', s)
HasDelete(s) ==
    \E i \in 1..Len(s) :
        /\ Lit(s, i, "delete")
        /\ At(s, i - 1) \notin WordCh
        /\ At(s, i + 6) \in SpaceCh

RawNewDeleteLine(filepath, i, line) ==
    LET code_part == CodePart(line)
    IN  (IF /\ HasNew(code_part)
            /\ ~Contains(line, "make_unique")
            /\ ~Contains(line, "make_shared")
         THEN <<Violation(filepath, i, Find(line, "new") - 1, Critical, "R.11",
                          "raw new", line)>>
         ELSE <<>>)
        \o
        (IF HasDelete(code_part)
         THEN <<Violation(filepath, i, Find(line, "delete") - 1, Critical, "R.11",
                          "raw delete", line)>>
         ELSE <<>>)

_detect_raw_new_delete(filepath, lines) ==
    Flatten([i \in 1..Len(lines) |-> RawNewDeleteLine(filepath, i, lines[i])])

\* re.search(r'\*\s*\w+\s*=\s*0\s*[;,)]', s)
HasPtrZeroAssign(s) ==
    \E i \in 1..Len(s) :
        LET n == Skip(s, i + 1, SpaceCh)
            m == Skip(s, n, WordCh)
            e == Skip(s, m, SpaceCh)
            z == Skip(s, e + 1, SpaceCh)
            q == Skip(s, z + 1, SpaceCh)
        IN  /\ At(s, i) = "*"
            /\ m > n
            /\ At(s, e) = "="
            /\ At(s, z) = "0"
            /\ At(s, q) \in {";", ",", ")"}

NullUsageLine(filepath, i, line) ==
    LET code_part == CodePart(line)
    IN  (IF HasNull(code_part)
         THEN <<Violation(filepath, i, Find(line, "NULL") - 1, Important, "ES.47",
                          "NULL", line)>>
         ELSE <<>>)
        \o
        (IF HasPtrZeroAssign(code_part)
         THEN <<Violation(filepath, i, 0, Important, "ES.47", "pointer zero", line)>>
         ELSE <<>>)

_detect_null_usage(filepath, lines) ==
    Flatten([i \in 1..Len(lines) |-> NullUsageLine(filepath, i, lines[i])])

\* re.search(r'\([A-Z]\w*\s*\*?\s*\)\s*[a-zA-Z_]', s)
HasCStyleCast(s) ==
    \E i \in 1..Len(s) :
        LET m == Skip(s, i + 2, WordCh)
            n == Skip(s, m, SpaceCh)
            r == Skip(s, IF At(s, n) = "*" THEN n + 1 ELSE n, SpaceCh)
            t == Skip(s, r + 1, SpaceCh)
        IN  /\ At(s, i) = "("
            /\ At(s, i + 1) \in Upper
            /\ At(s, r) = ")"
            /\ At(s, t) \in Lower \cup Upper \cup {"_"}

CStyleCastLine(filepath, i, line) ==
    IF HasCStyleCast(CodePart(line))
    THEN <<Violation(filepath, i, 0, Critical, "ES.49", "C cast", line)>>
    ELSE <<>>

_detect_c_style_cast(filepath, lines) ==
    Flatten([i \in 1..Len(lines) |-> CStyleCastLine(filepath, i, lines[i])])

\* re.search(r'\btypedef\b', s)
HasTypedef(s) ==
    \E i \in 1..Len(s) :
        /\ Lit(s, i, "typedef")
        /\ At(s, i - 1) \notin WordCh
        /\ At(s, i + 7) \notin WordCh

TypedefLine(filepath, i, line) ==
    IF HasTypedef(CodePart(line))
    THEN <<Violation(filepath, i, Find(line, "typedef") - 1, Suggestion, "T.43",
                     "typedef", line)>>
    ELSE <<>>

_detect_typedef(filepath, lines) ==
    Flatten([i \in 1..Len(lines) |-> TypedefLine(filepath, i, lines[i])])

\* re.search(r'^\s*(int|bool|void|string|double|float)\s+\w+\s*\([^)]*\)\s*\{', s)
IsPrimitiveFunction(s) ==
    LET a == Skip(s, 1, SpaceCh)
        k == IF Lit(s, a, "int") THEN a + 3
             ELSE IF Lit(s, a, "bool") THEN a + 4
             ELSE IF Lit(s, a, "void") THEN a + 4
             ELSE IF Lit(s, a, "string") THEN a + 6
             ELSE IF Lit(s, a, "double") THEN a + 6
             ELSE IF Lit(s, a, "float") THEN a + 5 ELSE 0
        n == Skip(s, k, SpaceCh)
        m == Skip(s, n, WordCh)
        o == Skip(s, m, SpaceCh)
        c == Upto(s, o + 1, {")"})
        e == Skip(s, c + 1, SpaceCh)
    IN  /\ k # 0
        /\ n > k
        /\ m > n
        /\ At(s, o) = "("
        /\ At(s, c) = ")"
        /\ At(s, e) = "{"

MissingConstLine(filepath, lines, i) ==
    IF /\ IsPrimitiveFunction(lines[i])
       /\ i < Len(lines)
       /\ Contains(lines[i + 1], "return")
       /\ ~Contains(lines[i], "const")
    THEN <<Violation(filepath, i, 0, Important, "Con.2", "missing const", lines[i])>>
    ELSE <<>>

_detect_missing_const(filepath, lines) ==
    Flatten([i \in 1..Len(lines) |-> MissingConstLine(filepath, lines, i)])

\* re.search(r'for\s*\(\s*\w+\s+\w+\s*=\s*0\s*;.*\.size\(\)', s)
HasIndexLoop(s) ==
    \E i \in 1..Len(s) :
        LET o  == Skip(s, i + 3, SpaceCh)
            w  == Skip(s, o + 1, SpaceCh)
            m1 == Skip(s, w, WordCh)
            n  == Skip(s, m1, SpaceCh)
            m2 == Skip(s, n, WordCh)
            e  == Skip(s, m2, SpaceCh)
            q  == ZeroAt(s, e)
        IN  /\ Lit(s, i, "for")
            /\ At(s, o) = "("
            /\ m1 > w
            /\ n > m1
            /\ m2 > n
            /\ q # 0
            /\ \E j \in q..Len(s) :
                   Lit(s, j, ".size()") /\ ~Contains(SubSeq(s, q, j - 1), "\n")

ManualLoopLine(filepath, i, line) ==
    IF HasIndexLoop(line)
    THEN <<Violation(filepath, i, 0, Suggestion, "ES.71", "index loop", line)>>
    ELSE <<>>

_detect_manual_loops(filepath, lines) ==
    Flatten([i \in 1..Len(lines) |-> ManualLoopLine(filepath, i, lines[i])])

\* re.search(r'\w+\s*\*\s+\w+\s*\([^)]*\)', s)
HasPointerReturn(s) ==
    \E i \in 1..Len(s) :
        LET m  == Skip(s, i, WordCh)
            n  == Skip(s, m, SpaceCh)
            k  == Skip(s, n + 1, SpaceCh)
            m2 == Skip(s, k, WordCh)
            o  == Skip(s, m2, SpaceCh)
            c  == Upto(s, o + 1, {")"})
        IN  /\ m > i
            /\ At(s, n) = "*"
            /\ k > n + 1
            /\ m2 > k
            /\ At(s, o) = "("
            /\ At(s, c) = ")"

RawPointerLine(filepath, i, line) ==
    IF HasPointerReturn(line) /\ ~Contains(line, "const")
    THEN <<Violation(filepath, i, 0, Important, "I.11", "raw pointer return", line)>>
    ELSE <<>>

_detect_raw_pointers(filepath, lines) ==
    Flatten([i \in 1..Len(lines) |-> RawPointerLine(filepath, i, lines[i])])

\* re.search(r'\b\w+\s+\w+\s*\[\s*\d+\s*\]', s)
HasCArray(s) ==
    \E i \in 1..Len(s) :
        LET m  == Skip(s, i, WordCh)
            n  == Skip(s, m, SpaceCh)
            m2 == Skip(s, n, WordCh)
            o  == Skip(s, m2, SpaceCh)
            d  == Skip(s, o + 1, SpaceCh)
            d2 == Skip(s, d, Digit)
            e  == Skip(s, d2, SpaceCh)
        IN  /\ m > i
            /\ At(s, i - 1) \notin WordCh
            /\ n > m
            /\ m2 > n
            /\ At(s, o) = "["
            /\ d2 > d
            /\ At(s, e) = "]"

CArrayLine(filepath, i, line) ==
    IF HasCArray(line) /\ ~Contains(line, "char")
    THEN <<Violation(filepath, i, 0, Suggestion, "SL.con.1", "C array", line)>>
    ELSE <<>>

_detect_c_arrays(filepath, lines) ==
    Flatten([i \in 1..Len(lines) |-> CArrayLine(filepath, i, lines[i])])

\* detect_file on a file that could be read: the eight detectors in order
DetectLines(filepath, lines) ==
    _detect_raw_new_delete(filepath, lines)
    \o _detect_null_usage(filepath, lines)
    \o _detect_c_style_cast(filepath, lines)
    \o _detect_typedef(filepath, lines)
    \o _detect_missing_const(filepath, lines)
    \o _detect_manual_loops(filepath, lines)
    \o _detect_raw_pointers(filepath, lines)
    \o _detect_c_arrays(filepath, lines)

(***************************************************************************)
(* Files.  A file is its text; readlines() cuts the text after each        *)
(* newline and writelines() concatenates the lines.                        *)
(***************************************************************************)
RECURSIVE ReadLines(_)
ReadLines(text) ==
    IF Len(text) = 0 THEN <<>>
    ELSE IF Find(text, "\n") = 0 THEN <<text>>
    ELSE <<SubSeq(text, 1, Find(text, "\n"))>> \o ReadLines(From(text, Find(text, "\n") + 1))

RECURSIVE WriteLines(_)
WriteLines(ls) == IF Len(ls) = 0 THEN "" ELSE Head(ls) \o WriteLines(Tail(ls))

(***************************************************************************)
(* scripts/modernize_code.py: the loop bodies of the four passes.          *)
(***************************************************************************)
Replacement(line_num, old_text, new_text, reason) ==
    [line_num |-> line_num, old_text |-> old_text, new_text |-> new_text,
     reason |-> reason]

ReasonNull == "NULL -> nullptr (ES.47)"

ReasonTypedef == "typedef -> using (T.43)"

ReasonZero == "pointer init 0 -> nullptr (ES.47)"

ReasonExplicit == "add explicit to single-argument constructor (C.46)"

\* a pass 1 that also rewrites lines holding a comment token
ReplaceNullLine_IgnoresComments(n, line) ==
    IF HasNull(line)
    THEN [new_line |-> SubNull(line),
          repl |-> <<Replacement(n, line, SubNull(line), ReasonNull)>>]
    ELSE [new_line |-> line, repl |-> <<>>]

\* the body of the loop of _replace_null_with_nullptr for line n:
\* the new line and the Replacements appended
ReplaceNullLine(n, line) ==
    IF ~Contains(line, "//") /\ ~Contains(line, "/*") /\ HasNull(line)
    THEN [new_line |-> SubNull(line),
          repl |-> IF SubNull(line) # line
                   THEN <<Replacement(n, line, SubNull(line), ReasonNull)>>
                   ELSE <<>>]
    ELSE [new_line |-> line, repl |-> <<>>]

\* a typedef pass that emits the using line and keeps the typedef line after it
ReplaceTypedefLine_KeepsOld(n, line) ==
    LET match == TypedefMatch(line)
        new_line == match.indent \o "using " \o match.new_name \o " = "
                    \o match.old_type \o ";\n" \o line
    IN  IF match.matched
        THEN [new_line |-> new_line,
              repl |-> <<Replacement(n, line, new_line, ReasonTypedef)>>]
        ELSE [new_line |-> line, repl |-> <<>>]

\* a typedef pass that starts the using line in the first column
ReplaceTypedefLine_DropsIndent(n, line) ==
    LET match == TypedefMatch(line)
        new_line == "using " \o match.new_name \o " = " \o match.old_type \o ";\n"
    IN  IF match.matched
        THEN [new_line |-> new_line,
              repl |-> <<Replacement(n, line, new_line, ReasonTypedef)>>]
        ELSE [new_line |-> line, repl |-> <<>>]

\* the body of the loop of _replace_typedef_with_using
ReplaceTypedefLine(n, line) ==
    LET match == TypedefMatch(line)
        new_line == match.indent \o "using " \o match.new_name \o " = "
                    \o match.old_type \o ";\n"
    IN  IF match.matched
        THEN [new_line |-> new_line,
              repl |-> <<Replacement(n, line, new_line, ReasonTypedef)>>]
        ELSE [new_line |-> line, repl |-> <<>>]

\* a zero-pointer pass that logs a Replacement for every line it looks at
ReplaceZeroLine_LogsEveryLine(n, line) ==
    IF HasPtrZero(line)
    THEN [new_line |-> SubZero(line),
          repl |-> <<Replacement(n, line, SubZero(line), ReasonZero)>>]
    ELSE [new_line |-> line, repl |-> <<Replacement(n, line, line, ReasonZero)>>]

\* the body of the loop of _replace_zero_nullptr
ReplaceZeroLine(n, line) ==
    IF HasPtrZero(line)
    THEN [new_line |-> SubZero(line),
          repl |-> IF SubZero(line) # line
                   THEN <<Replacement(n, line, SubZero(line), ReasonZero)>>
                   ELSE <<>>]
    ELSE [new_line |-> line, repl |-> <<>>]

\* _add_explicit_to_constructors, the scope tracking of one line: the new
\* <<in_class, access_level>>
TrackScope(line, inClass, access) ==
    LET opened == IsTypeOpener(line)
        access1 == IF opened
                   THEN (IF Contains(line, "struct") THEN "public" ELSE "private")
                   ELSE access
        access2 == IF IsLabel(line, "public") THEN "public"
                   ELSE IF IsLabel(line, "private") THEN "private"
                   ELSE IF IsLabel(line, "protected") THEN "protected"
                   ELSE access1
    IN  <<inClass \/ opened, access2>>

\* a gate that forgets the access level
ExplicitGate_InClassOnly(inClass, access) == inClass

\* the test that lets the constructor rewrite look at the line
ExplicitGate(inClass, access) == inClass /\ access = "public"

\* _add_explicit_to_constructors, the rewrite of one line under the gate
AddExplicitLine(n, line, inClass, access) ==
    LET match == CtorMatch(line)
        new_line == ReplaceFirst(line, match.indent, match.indent \o "explicit ")
    IN  IF /\ ExplicitGate(inClass, access)
           /\ match.matched
           /\ ~Contains(line, "explicit")
           /\ ~Contains(line, "delete")
        THEN [new_line |-> new_line,
              repl |-> <<Replacement(n, line, new_line, ReasonExplicit)>>]
        ELSE [new_line |-> line, repl |-> <<>>]

\* a tracker that never leaves the type
CloseScope_Never(line, inClass) == inClass

\* _add_explicit_to_constructors, the end of a type: the new in_class
CloseScope(line, inClass) == IF inClass /\ IsTypeEnd(line) THEN FALSE ELSE inClass

(***************************************************************************)
(* The inputs: source lines built from an indentation, a body and a        *)
(* trailing comment, and the files made of them.                           *)
(***************************************************************************)
MaxLines == 2

MaxCalls == 2

MaxDetectLines == 2

Indents == {"", "  "}

Trailers == {"", " // c", " /* c */"}

Bodies ==
    {"p = NULL;", "typedef NULL T;", "typedef int T;", "typedef unsigned long ULong;",
     "*p = 0;", "*p = 0; n = 0;", "*p = 0; q = NULL;",
     "Foo(int x) { }", "Foo(int x) = delete;", "explicit Foo(int x);",
     "int y;", "x = (T)y;", "p = new T;", "delete p;", "int a[3];", "T* f(int x);",
     "int f() {", "return y;", "for (int i = 0; i < v.size(); ++i) {",
     "class Foo {", "struct Foo {", "public:", "private:", "protected:", "};"}

ShapeLines == {ind \o body \o tr \o "\n" : ind \in Indents, body \in Bodies, tr \in Trailers}

ScopeLines ==
    {"class Foo {\n", "public:\n", "private:\n", "    Foo(int x) { }\n", "};\n"}

RECURSIVE SeqsUpTo(_, _)
SeqsUpTo(S, n) ==
    IF n = 0 THEN {<<>>}
    ELSE SeqsUpTo(S, n - 1)
         \cup {Append(f, l) : f \in {g \in SeqsUpTo(S, n - 1) : Len(g) = n - 1}, l \in S}

\* the example of the scope tracker, and files whose last line has no newline
ExampleFiles ==
    {<<"class Foo {\n", "public:\n", "    Foo(int x) { }\n", "};\n">>,
     <<"class Foo {\n", "protected:\n", "    Foo(int x) { }\n", "};\n">>,
     <<"struct Foo {\n", "  Foo(int x) { };\n", "  Foo(int y);\n">>,
     <<"int y;\n", "typedef int T;">>,
     <<"p = NULL;">>}

\* a class with one access label and one member
ClassFiles ==
    {<<"class Foo {\n", label, member, "};\n">> :
        label \in {"public:\n", "private:\n", "protected:\n", "  public :\n"},
        member \in {"    Foo(int x) { }\n", "  Foo(int x);\n", "  Foo(int *p = 0;);\n",
                    "  typedef NULL T; // c\n", "  int *p = 0;\n"}}

\* a class whose opening line holds the word struct after the keyword
StructWordFiles ==
    {<<"class Foo { // struct\n", "  Foo(int x);\n", "};\n">>,
     <<"class Foo_struct {\n", "  int y;\n", "};\n">>}

Files ==
    {<<l>> : l \in ShapeLines}
    \cup StructWordFiles
    \cup {<<"struct Foo {\n", l>> : l \in ShapeLines}
    \cup ClassFiles
    \cup SeqsUpTo(ScopeLines, MaxLines)
    \cup ExampleFiles

\* lines whose comment holds code, or a word a detector looks for in the line
CommentLines ==
    {"// int a[3];\n", "int a[3]; // char\n", "p = new T; // make_unique\n",
     "T* f(int x); // const\n", "// for (int i = 0; i < v.size(); ++i) {\n"}

\* one line of each severity
DetectLineSet == {"x = (T)y;\n", "p = NULL;\n", "typedef int T;\n"}

DetectFiles == SeqsUpTo(DetectLineSet, MaxDetectLines)

\* the paths, in the order of str comparison
Paths == <<"a.cpp", "b.cpp">>

PathSet == {Paths[n] : n \in 1..Len(Paths)}

None == "None"

\* sys.argv has no path argument
NoArg == ""

\* a path argument that names neither a file nor a directory
NotAFile == "nofile"

VARIABLES
    tool,            \* the script that runs
    pc,              \* the statement the script is at
    disk,            \* path -> [text, readable]
    bak,             \* path -> the text of path + '.bak', None when there is none
    dry_run,         \* CodeModernizer.dry_run
    backup,          \* the backup argument of modernize_file
    replacements,    \* CodeModernizer.replacements
    filepath, original_lines, lines, ret,     \* modernize_file
    result, i, in_class, access_level,        \* the pass that runs
    calls,           \* the calls of modernize_file so far
    produced,        \* path -> the lines the last pipeline run on it returned
    target,          \* sys.argv[1] of detect_violations.py / generate_report.py
    violations,      \* ViolationDetector.violations
    cpp_files, k, all_violations,             \* scan_directory
    main_violations, \* the local violations of main
    handed,          \* the list the consumer gets: printed, or ReportGenerator.violations
    exit_code,       \* the exit status of the process, -1 while it runs
    installed,       \* clang-tidy --version runs and returns 0
    run_log,         \* the results run_on_file has returned, in order
    all_warnings,    \* all_warnings of run_clang_tidy.main
    heap,            \* the list objects self.violations has been bound to
    vptr,            \* the list object self.violations is bound to now
    tpc, tlines, tret  \* detect_file run by two threads: position, lines, returned list

modVars == <<dry_run, backup, replacements, filepath, original_lines, lines, ret,
             result, i, in_class, access_level, calls, produced, bak>>

detVars == <<target, violations, cpp_files, k, all_violations, main_violations, handed>>

tidyVars == <<installed, run_log, all_warnings>>

parVars == <<heap, vptr, tpc, tlines, tret>>

extVars == <<exit_code, tidyVars, parVars>>

vars == <<tool, pc, disk, modVars, detVars, extVars>>

DetInit ==
    /\ violations = <<>>
    /\ cpp_files = <<>>
    /\ k = 1
    /\ all_violations = <<>>
    /\ main_violations = <<>>
    /\ handed = <<>>

\* the threads that run detect_file
Threads == {1, 2}

\* run_clang_tidy.py and the threads have not run
TidyInit ==
    /\ run_log = <<>>
    /\ all_warnings = <<>>

ParInit ==
    /\ heap = <<<<>>>>
    /\ vptr = 1
    /\ tpc = [t \in Threads |-> [at |-> "reset", n |-> 0]]
    /\ tlines = [t \in Threads |-> <<>>]
    /\ tret = [t \in Threads |-> 0]

ModInit ==
    /\ bak = [p \in PathSet |-> None]
    /\ replacements = <<>>
    /\ filepath = None
    /\ original_lines = <<>>
    /\ lines = <<>>
    /\ ret = None
    /\ result = <<>>
    /\ i = 1
    /\ in_class = FALSE
    /\ access_level = "private"
    /\ calls = 0
    /\ produced = [p \in PathSet |-> [ran |-> FALSE, lines |-> <<>>]]

Unreadable == [text |-> "", readable |-> FALSE]

FileOf(f) == [text |-> WriteLines(f), readable |-> TRUE]

InitModernize ==
    /\ tool = "modernize"
    /\ pc = "idle"
    /\ \E f \in Files :
           disk = [p \in PathSet |-> IF p = Paths[1] THEN FileOf(f) ELSE Unreadable]
    /\ dry_run \in BOOLEAN
    /\ backup \in BOOLEAN
    /\ target = None
    /\ ModInit
    /\ DetInit
    /\ exit_code = -1
    /\ installed = FALSE
    /\ TidyInit
    /\ ParInit

\* the disks of the detector: two small files, either of them possibly unreadable,
\* or one file of one line of any shape
InitDetect ==
    /\ tool \in {"detect", "report"}
    /\ pc = "start"
    /\ \/ \E fa \in {FileOf(f) : f \in DetectFiles} \cup {Unreadable},
             fb \in {FileOf(f) : f \in DetectFiles} \cup {Unreadable} :
               disk = [p \in PathSet |-> IF p = Paths[1] THEN fa ELSE fb]
       \/ \E l \in ShapeLines \cup CommentLines :
               disk = [p \in PathSet |-> IF p = Paths[1] THEN FileOf(<<l>>) ELSE Unreadable]
    /\ target \in (IF tool = "detect" THEN PathSet \cup {NoArg, NotAFile} ELSE {}) \cup {"dir"}
    /\ dry_run = FALSE
    /\ backup = FALSE
    /\ ModInit
    /\ DetInit
    /\ exit_code = -1
    /\ installed = FALSE
    /\ TidyInit
    /\ ParInit

\* modernize_file, lines 42-53: read the file, start the pipeline
CallModernizeFile(path) ==
    /\ tool = "modernize"
    /\ pc = "idle"
    /\ calls < MaxCalls
    /\ calls' = calls + 1
    /\ filepath' = path
    /\ IF disk[path].readable
       THEN /\ original_lines' = ReadLines(disk[path].text)
            /\ lines' = ReadLines(disk[path].text)
            /\ replacements' = <<>>
            /\ ret' = None
            /\ pc' = "null"
       ELSE /\ ret' = "False"
            /\ pc' = "idle"
            /\ UNCHANGED <<original_lines, lines, replacements>>
    /\ result' = <<>>
    /\ i' = 1
    /\ UNCHANGED <<tool, disk, bak, dry_run, backup, in_class, access_level, produced,
                   detVars, extVars>>

\* the end of a loop iteration: the next line, or the pass returns res to modernize_file
LoopNext(res, after) ==
    IF i >= Len(lines)
    THEN lines' = res /\ result' = <<>> /\ i' = 1 /\ pc' = after
    ELSE lines' = lines /\ result' = res /\ i' = i + 1 /\ pc' = pc

frame == <<tool, disk, bak, dry_run, backup, filepath, original_lines, ret, calls,
           produced, detVars, extVars>>

\* _replace_null_with_nullptr, one iteration
NullStep ==
    /\ pc = "null"
    /\ IF Len(lines) = 0
       THEN LoopNext(<<>>, "typedef") /\ UNCHANGED replacements
       ELSE LET r == ReplaceNullLine(i, lines[i])
            IN  /\ replacements' = replacements \o r.repl
                /\ LoopNext(Append(result, r.new_line), "typedef")
    /\ UNCHANGED <<frame, in_class, access_level>>

\* _replace_typedef_with_using, one iteration
TypedefStep ==
    /\ pc = "typedef"
    /\ IF Len(lines) = 0
       THEN LoopNext(<<>>, "explicit") /\ UNCHANGED replacements
       ELSE LET r == ReplaceTypedefLine(i, lines[i])
            IN  /\ replacements' = replacements \o r.repl
                /\ LoopNext(Append(result, r.new_line), "explicit")
    /\ UNCHANGED <<frame, in_class, access_level>>

\* _add_explicit_to_constructors, lines 162-164
ExplicitBegin ==
    /\ pc = "explicit"
    /\ in_class' = FALSE
    /\ access_level' = "private"
    /\ result' = <<>>
    /\ i' = 1
    /\ pc' = IF Len(lines) = 0 THEN "zero" ELSE "explicit_track"
    /\ UNCHANGED <<frame, lines, replacements>>

\* _add_explicit_to_constructors, lines 169-180 of one iteration
ExplicitTrack ==
    /\ pc = "explicit_track"
    /\ in_class' = TrackScope(lines[i], in_class, access_level)[1]
    /\ access_level' = TrackScope(lines[i], in_class, access_level)[2]
    /\ pc' = "explicit_rewrite"
    /\ UNCHANGED <<frame, lines, result, i, replacements>>

\* _add_explicit_to_constructors, lines 182-196 of one iteration
ExplicitRewrite ==
    /\ pc = "explicit_rewrite"
    /\ LET r == AddExplicitLine(i, lines[i], in_class, access_level)
       IN  /\ replacements' = replacements \o r.repl
           /\ result' = Append(result, r.new_line)
    /\ pc' = "explicit_close"
    /\ UNCHANGED <<frame, lines, i, in_class, access_level>>

\* _add_explicit_to_constructors, lines 198-203 of one iteration
ExplicitClose ==
    /\ pc = "explicit_close"
    /\ in_class' = CloseScope(lines[i], in_class)
    /\ IF i >= Len(lines)
       THEN lines' = result /\ result' = <<>> /\ i' = 1 /\ pc' = "zero"
       ELSE lines' = lines /\ result' = result /\ i' = i + 1 /\ pc' = "explicit_track"
    /\ UNCHANGED <<frame, access_level, replacements>>

\* a zero-pointer pass that puts its Replacements at the head of the log
ZeroStep_Prepends ==
    /\ pc = "zero"
    /\ IF Len(lines) = 0
       THEN LoopNext(<<>>, "compare") /\ UNCHANGED replacements
       ELSE LET r == ReplaceZeroLine(i, lines[i])
            IN  /\ replacements' = r.repl \o replacements
                /\ LoopNext(Append(result, r.new_line), "compare")
    /\ UNCHANGED <<frame, in_class, access_level>>

\* _replace_zero_nullptr, one iteration
ZeroStep ==
    /\ pc = "zero"
    /\ IF Len(lines) = 0
       THEN LoopNext(<<>>, "compare") /\ UNCHANGED replacements
       ELSE LET r == ReplaceZeroLine(i, lines[i])
            IN  /\ replacements' = replacements \o r.repl
                /\ LoopNext(Append(result, r.new_line), "compare")
    /\ UNCHANGED <<frame, in_class, access_level>>

\* a modernize_file that does not compare the lines with the lines it read
Compare_NoEqualityTest ==
    /\ pc = "compare"
    /\ produced' = [produced EXCEPT ![filepath] = [ran |-> TRUE, lines |-> lines]]
    /\ IF dry_run
       THEN ret' = "True" /\ pc' = "idle"
       ELSE ret' = ret /\ pc' = IF backup THEN "backup" ELSE "write"
    /\ UNCHANGED <<tool, disk, bak, dry_run, backup, filepath, original_lines, lines,
                   replacements, result, i, in_class, access_level, calls, detVars, extVars>>

\* a modernize_file that writes the file before it copies it
Backup_AfterWrite ==
    /\ pc = "backup"
    /\ disk' = [disk EXCEPT ![filepath].text = WriteLines(lines)]
    /\ bak' = [bak EXCEPT ![filepath] = WriteLines(lines)]
    /\ pc' = "idle"
    /\ ret' = "True"
    /\ UNCHANGED <<tool, dry_run, backup, filepath, original_lines, lines,
                   replacements, result, i, in_class, access_level, calls, produced,
                   detVars, extVars>>

\* modernize_file, lines 60-80: nothing to change, dry run, or go on to write
Compare ==
    /\ pc = "compare"
    /\ produced' = [produced EXCEPT ![filepath] = [ran |-> TRUE, lines |-> lines]]
    /\ IF lines = original_lines
       THEN ret' = "False" /\ pc' = "idle"
       ELSE IF dry_run
       THEN ret' = "True" /\ pc' = "idle"
       ELSE ret' = ret /\ pc' = IF backup THEN "backup" ELSE "write"
    /\ UNCHANGED <<tool, disk, bak, dry_run, backup, filepath, original_lines, lines,
                   replacements, result, i, in_class, access_level, calls, detVars, extVars>>

\* modernize_file, lines 77-80: shutil.copy2 copies the file, or raises
Backup ==
    /\ pc = "backup"
    /\ \E copied \in BOOLEAN :
           IF copied
           THEN /\ bak' = [bak EXCEPT ![filepath] = disk[filepath].text]
                /\ pc' = "write"
                /\ ret' = ret
           ELSE /\ bak' = bak
                /\ pc' = "idle"
                /\ ret' = "raised"
    /\ UNCHANGED <<tool, disk, dry_run, backup, filepath, original_lines, lines,
                   replacements, result, i, in_class, access_level, calls, produced,
                   detVars, extVars>>

\* modernize_file, lines 83-90: the file is written, or open() raises
Write ==
    /\ pc = "write"
    /\ \E written \in BOOLEAN :
           IF written
           THEN /\ disk' = [disk EXCEPT ![filepath].text = WriteLines(lines)]
                /\ ret' = "True"
           ELSE /\ disk' = disk
                /\ ret' = "False"
    /\ pc' = "idle"
    /\ UNCHANGED <<tool, bak, dry_run, backup, filepath, original_lines, lines,
                   replacements, result, i, in_class, access_level, calls, produced,
                   detVars, extVars>>

(***************************************************************************)
(* scripts/detect_violations.py and scripts/generate_report.py: the        *)
(* drivers.                                                                *)
(***************************************************************************)

\* a detect_file that returns self.violations, not yet emptied, for a file it cannot read
DetectFile_StaleOnError(path) ==
    IF disk[path].readable THEN DetectLines(path, ReadLines(disk[path].text))
    ELSE violations

\* detect_file: the list it returns, which is also self.violations afterwards
DetectFile(path) ==
    IF disk[path].readable THEN DetectLines(path, ReadLines(disk[path].text)) ELSE <<>>

\* the key of violations.sort in detect_violations.main
SeverityRank(severity) ==
    IF severity = Critical THEN 0 ELSE IF severity = Important THEN 1 ELSE 2

PathRank(path) == CHOOSE n \in 1..Len(Paths) : Paths[n] = path

\* key(v) <= key(w), tuples compared as Python compares them
KeyLeq(v, w) ==
    \/ SeverityRank(v.severity) < SeverityRank(w.severity)
    \/ /\ SeverityRank(v.severity) = SeverityRank(w.severity)
       /\ \/ PathRank(v.file) < PathRank(w.file)
          \/ v.file = w.file /\ v.line <= w.line

\* list.sort(key): a stable sort, here by insertion
RECURSIVE InsertByKey(_, _)
InsertByKey(sorted, v) ==
    IF Len(sorted) = 0 THEN <<v>>
    ELSE IF KeyLeq(sorted[Len(sorted)], v) THEN Append(sorted, v)
    ELSE Append(InsertByKey(SubSeq(sorted, 1, Len(sorted) - 1), v), sorted[Len(sorted)])

RECURSIVE SortByKey(_)
SortByKey(vs) ==
    IF Len(vs) = 0 THEN <<>>
    ELSE InsertByKey(SortByKey(SubSeq(vs, 1, Len(vs) - 1)), vs[Len(vs)])

\* what detect_violations.main prints
ConsoleList(vs) == SortByKey(vs)

\* what generate_report.main gives to ReportGenerator
ReportList(vs) == vs

\* the orders in which glob may list the directory
Listings == {o \in [1..Len(Paths) -> PathSet] : \A m, n \in 1..Len(Paths) : o[m] = o[n] => m = n}

detFrame == <<tool, disk, target, modVars, extVars>>

\* detect_violations.main, lines 309-311: the target is a file
MainDetectFile ==
    /\ tool = "detect"
    /\ pc = "start"
    /\ target \in PathSet
    /\ violations' = DetectFile(target)
    /\ main_violations' = violations'
    /\ pc' = "output"
    /\ UNCHANGED <<detFrame, cpp_files, k, all_violations, handed>>

\* scan_directory, lines 279-287: the detector and the list of files
ScanBegin ==
    /\ tool \in {"detect", "report"}
    /\ pc = "start"
    /\ target = "dir"
    /\ \E listing \in Listings : cpp_files' = listing
    /\ all_violations' = <<>>
    /\ violations' = <<>>
    /\ k' = 1
    /\ pc' = "scan"
    /\ UNCHANGED <<detFrame, main_violations, handed>>

\* scan_directory, lines 289-293: one file of the loop, or the return
ScanStep ==
    /\ pc = "scan"
    /\ IF k <= Len(cpp_files)
       THEN /\ violations' = DetectFile(cpp_files[k])
            /\ all_violations' = all_violations \o violations'
            /\ k' = k + 1
            /\ UNCHANGED <<pc, main_violations>>
       ELSE /\ main_violations' = all_violations
            /\ pc' = "output"
            /\ UNCHANGED <<violations, all_violations, k>>
    /\ UNCHANGED <<detFrame, cpp_files, handed>>

\* detect_violations.main, lines 318-334: nothing found, or sort and print
DetectOutput ==
    /\ tool = "detect"
    /\ pc = "output"
    /\ handed' = IF Len(main_violations) = 0 THEN <<>> ELSE ConsoleList(main_violations)
    /\ main_violations' = handed'
    /\ pc' = "done"
    /\ UNCHANGED <<detFrame, violations, cpp_files, k, all_violations>>

\* generate_report.main, lines 237-243: nothing found, or make the ReportGenerator
ReportOutput ==
    /\ tool = "report"
    /\ pc = "output"
    /\ handed' = IF Len(main_violations) = 0 THEN <<>> ELSE ReportList(main_violations)
    /\ pc' = "done"
    /\ UNCHANGED <<detFrame, violations, cpp_files, k, all_violations, main_violations>>

(***************************************************************************)
(* detect_file called by two threads on the one ViolationDetector of a     *)
(* batch: thread t works on Paths[t].  self.violations is a reference to   *)
(* a list object of the heap; a thread may be preempted between any two    *)
(* statements of detect_file.                                              *)
(***************************************************************************)

\* the violations the n-th detector of detect_file appends
DetectorResult(n, path, ls) ==
    CASE n = 1 -> _detect_raw_new_delete(path, ls)
      [] n = 2 -> _detect_null_usage(path, ls)
      [] n = 3 -> _detect_c_style_cast(path, ls)
      [] n = 4 -> _detect_typedef(path, ls)
      [] n = 5 -> _detect_missing_const(path, ls)
      [] n = 6 -> _detect_manual_loops(path, ls)
      [] n = 7 -> _detect_raw_pointers(path, ls)
      [] OTHER -> _detect_c_arrays(path, ls)

\* the files of the two threads
ParallelDisks ==
    {[p \in PathSet |-> IF p = Paths[1] THEN fa ELSE fb] :
        fa \in {FileOf(<<"p = NULL;\n">>), FileOf(<<"x = (T)y;\n", "typedef int T;\n">>)},
        fb \in {FileOf(<<"typedef int T;\n">>), FileOf(<<"int y;\n">>), Unreadable}}

InitParallel ==
    /\ tool = "parallel"
    /\ pc = "threads"
    /\ disk \in ParallelDisks
    /\ target = "dir"
    /\ dry_run = FALSE
    /\ backup = FALSE
    /\ ModInit
    /\ DetInit
    /\ exit_code = -1
    /\ installed = FALSE
    /\ TidyInit
    /\ ParInit

parFrame == <<tool, pc, disk, modVars, detVars, exit_code, tidyVars>>

\* detect_file, line 56: self.violations = []
ThreadReset(t) ==
    /\ tool = "parallel"
    /\ tpc[t].at = "reset"
    /\ heap' = Append(heap, <<>>)
    /\ vptr' = Len(heap) + 1
    /\ tpc' = [tpc EXCEPT ![t] = [at |-> "read", n |-> 0]]
    /\ UNCHANGED <<parFrame, tlines, tret>>

\* detect_file, lines 58-63: the lines of the file, or return []
ThreadRead(t) ==
    /\ tool = "parallel"
    /\ tpc[t].at = "read"
    /\ IF disk[Paths[t]].readable
       THEN /\ tlines' = [tlines EXCEPT ![t] = ReadLines(disk[Paths[t]].text)]
            /\ tpc' = [tpc EXCEPT ![t] = [at |-> "detect", n |-> 1]]
            /\ UNCHANGED <<heap, tret>>
       ELSE /\ heap' = Append(heap, <<>>)
            /\ tret' = [tret EXCEPT ![t] = Len(heap) + 1]
            /\ tpc' = [tpc EXCEPT ![t] = [at |-> "returned", n |-> 0]]
            /\ UNCHANGED tlines
    /\ UNCHANGED <<parFrame, vptr>>

\* detect_file, lines 66-73: one detector appends to the list self.violations is
\* bound to when it runs
ThreadDetect(t) ==
    /\ tool = "parallel"
    /\ tpc[t].at = "detect"
    /\ heap' = [heap EXCEPT ![vptr] = @ \o DetectorResult(tpc[t].n, Paths[t], tlines[t])]
    /\ tpc' = [tpc EXCEPT ![t] = IF tpc[t].n < 8 THEN [at |-> "detect", n |-> tpc[t].n + 1]
                                 ELSE [at |-> "return", n |-> 0]]
    /\ UNCHANGED <<parFrame, vptr, tlines, tret>>

\* detect_file, line 75: return self.violations
ThreadReturn(t) ==
    /\ tool = "parallel"
    /\ tpc[t].at = "return"
    /\ tret' = [tret EXCEPT ![t] = vptr]
    /\ tpc' = [tpc EXCEPT ![t] = [at |-> "returned", n |-> 0]]
    /\ UNCHANGED <<parFrame, heap, vptr, tlines>>

(***************************************************************************)
(* The exit status of modernize_code.main and detect_violations.main.      *)
(***************************************************************************)

\* modernize_code.main, lines 208-224: no argument, or not a file: status 1
ModernizeMainReject ==
    /\ tool = "modernize"
    /\ pc = "idle"
    /\ calls = 0
    /\ \E arg \in {NoArg, NotAFile, "dir"} : target' = arg
    /\ exit_code' = 1
    /\ pc' = "exited"
    /\ UNCHANGED <<tool, disk, modVars, violations, cpp_files, k, all_violations,
                   main_violations, handed, tidyVars, parVars>>

\* modernize_code.main, lines 231-240: modernize_file has returned and main
\* returns, or the exception of shutil.copy2 ends the process
ModernizeMainExit ==
    /\ tool = "modernize"
    /\ pc = "idle"
    /\ calls = 1
    /\ exit_code' = IF ret = "raised" THEN 1 ELSE 0
    /\ pc' = "exited"
    /\ UNCHANGED <<tool, disk, modVars, detVars, tidyVars, parVars>>

\* detect_violations.main, lines 298-316: no argument, or neither file nor directory
DetectMainReject ==
    /\ tool = "detect"
    /\ pc = "start"
    /\ target \in {NoArg, NotAFile}
    /\ exit_code' = 1
    /\ pc' = "exited"
    /\ UNCHANGED <<tool, disk, modVars, detVars, tidyVars, parVars>>

\* detect_violations.main, lines 318-346: main returns
DetectMainExit ==
    /\ tool = "detect"
    /\ pc = "done"
    /\ exit_code' = 0
    /\ pc' = "exited"
    /\ UNCHANGED <<tool, disk, modVars, detVars, tidyVars, parVars>>

(***************************************************************************)
(* scripts/run_clang_tidy.py: the external linter.                         *)
(***************************************************************************)

\* str.split(c, maxsplit), maxsplit < 0 for no limit
RECURSIVE SplitOn(_, _, _)
SplitOn(s, c, maxsplit) ==
    IF maxsplit = 0 \/ Find(s, c) = 0 THEN <<s>>
    ELSE <<SubSeq(s, 1, Find(s, c) - 1)>>
         \o SplitOn(From(s, Find(s, c) + Len(c)), c, maxsplit - 1)

\* s.rfind(c) + 1: the last position of c in s, 0 when there is none
RECURSIVE RFindFrom(_, _, _)
RFindFrom(s, c, j) ==
    IF j < 1 THEN 0 ELSE IF Lit(s, j, c) THEN j ELSE RFindFrom(s, c, j - 1)

RFind(s, c) == RFindFrom(s, c, Len(s))

\* the digits of int(s): s without the blanks around it and without its sign
IntDigits(s) == IF At(Strip(s), 1) \in {"+", "-"} THEN From(Strip(s), 2) ELSE Strip(s)

\* int(s) does not raise ValueError
IsInt(s) ==
    /\ Len(IntDigits(s)) > 0
    /\ \A j \in 1..Len(IntDigits(s)) : At(IntDigits(s), j) \in Digit

RECURSIVE DigitsValue(_)
DigitsValue(d) ==
    IF Len(d) = 0 THEN 0
    ELSE 10 * DigitsValue(SubSeq(d, 1, Len(d) - 1)) + (Find("0123456789", At(d, Len(d))) - 1)

\* int(s)
IntOf(s) == IF At(Strip(s), 1) = "-" THEN 0 - DigitsValue(IntDigits(s)) ELSE DigitsValue(IntDigits(s))

\* parse_output, one line of the output: the warning of the line, if it is one
ParseLine(line) ==
    IF ~(Contains(line, ": warning:") \/ Contains(line, ": error:")) THEN <<>>
    ELSE LET parts == SplitOn(line, ":", 4)
         IN  IF Len(parts) < 5 THEN <<>>
             ELSE IF ~IsInt(parts[2]) \/ ~IsInt(parts[3]) THEN <<>>
             ELSE LET message == Strip(parts[5])
                      named == Contains(message, "[") /\ Contains(message, "]")
                  IN  <<[file |-> parts[1],
                         line |-> IntOf(parts[2]),
                         column |-> IntOf(parts[3]),
                         severity |-> Strip(parts[4]),
                         message |-> IF named
                                     THEN Strip(SubSeq(message, 1, RFind(message, "[") - 1))
                                     ELSE message,
                         check |-> IF named
                                   THEN SubSeq(message, RFind(message, "[") + 1,
                                               RFind(message, "]") - 1)
                                   ELSE ""]>>

\* ClangTidyRunner.parse_output
parse_output(output) ==
    Flatten([n \in 1..Len(SplitOn(output, "\n", -1)) |->
                ParseLine(SplitOn(output, "\n", -1)[n])])

\* what clang-tidy may print for a file
Outputs ==
    {"",
     "1 warning generated.\n",
     "a.cpp:1:2: warning: use nullptr [modernize-use-nullptr]\n",
     "a.cpp:3:1: error: bad\nb.h:4:5: warning: m [c]\n",
     "a.cpp:x:2: warning: m [c]\n"}

\* how subprocess.run may end: it returns, it times out, it raises
Outcomes == {"returned", "timeout", "raised"}

\* ClangTidyRunner.run_on_file: the dictionary it returns
run_on_file(path, outcome, out) ==
    IF outcome = "returned"
    THEN [file |-> path, success |-> TRUE, output |-> out, errors |-> ""]
    ELSE IF outcome = "timeout"
    THEN [file |-> path, success |-> FALSE, output |-> "", errors |-> "timeout (>60 s)"]
    ELSE [file |-> path, success |-> FALSE, output |-> "", errors |-> "str(e)"]

InitTidy ==
    /\ tool = "tidy"
    /\ pc = "start"
    /\ disk = [p \in PathSet |-> FileOf(<<>>)]
    /\ target \in PathSet \cup {"dir"}
    /\ installed \in BOOLEAN
    /\ dry_run = FALSE
    /\ backup = FALSE
    /\ ModInit
    /\ DetInit
    /\ exit_code = -1
    /\ TidyInit
    /\ ParInit

tidyFrame == <<tool, disk, target, installed, modVars, parVars, violations, all_violations,
               main_violations, handed>>

\* main, lines 199-206: without clang-tidy the run ends with status 1
TidyCheckInstalled ==
    /\ tool = "tidy"
    /\ pc = "start"
    /\ IF installed
       THEN pc' = "find" /\ exit_code' = exit_code
       ELSE pc' = "exited" /\ exit_code' = 1
    /\ UNCHANGED <<tidyFrame, cpp_files, k, run_log, all_warnings>>

\* main, lines 208-213, and find_cpp_files: the files, status 1 when there is none
TidyFind ==
    /\ tool = "tidy"
    /\ pc = "find"
    /\ \E found \in (IF target \in PathSet THEN {<<target>>} ELSE Listings \cup {<<>>}) :
           /\ cpp_files' = found
           /\ IF Len(found) = 0
              THEN pc' = "exited" /\ exit_code' = 1
              ELSE pc' = "run" /\ exit_code' = exit_code
    /\ k' = 1
    /\ UNCHANGED <<tidyFrame, run_log, all_warnings>>

\* a main that gives up at the first file that fails
TidyRunOnFile_StopsOnFailure ==
    /\ tool = "tidy"
    /\ pc = "run"
    /\ k <= Len(cpp_files)
    /\ \E outcome \in Outcomes, out \in Outputs :
           LET res == run_on_file(cpp_files[k], outcome, out)
           IN  /\ run_log' = Append(run_log, res)
               /\ all_warnings' = IF res.success
                                  THEN all_warnings \o parse_output(res.output)
                                  ELSE all_warnings
               /\ IF res.success
                  THEN pc' = pc /\ exit_code' = exit_code
                  ELSE pc' = "exited" /\ exit_code' = 1
    /\ k' = k + 1
    /\ UNCHANGED <<tidyFrame, cpp_files>>

\* main, lines 224-239: one file of the loop
TidyRunOnFile ==
    /\ tool = "tidy"
    /\ pc = "run"
    /\ k <= Len(cpp_files)
    /\ \E outcome \in Outcomes, out \in Outputs :
           LET res == run_on_file(cpp_files[k], outcome, out)
           IN  /\ run_log' = Append(run_log, res)
               /\ all_warnings' = IF res.success
                                  THEN all_warnings \o parse_output(res.output)
                                  ELSE all_warnings
    /\ k' = k + 1
    /\ UNCHANGED <<tidyFrame, cpp_files, pc, exit_code>>

\* main, lines 241-261: the summary, and the return
TidyFinish ==
    /\ tool = "tidy"
    /\ pc = "run"
    /\ k > Len(cpp_files)
    /\ pc' = "exited"
    /\ exit_code' = 0
    /\ UNCHANGED <<tidyFrame, cpp_files, k, run_log, all_warnings>>

Init == InitModernize \/ InitDetect \/ InitTidy \/ InitParallel

Next ==
    \/ \E path \in PathSet : CallModernizeFile(path)
    \/ NullStep
    \/ TypedefStep
    \/ ExplicitBegin
    \/ ExplicitTrack
    \/ ExplicitRewrite
    \/ ExplicitClose
    \/ ZeroStep
    \/ Compare
    \/ Backup
    \/ Write
    \/ MainDetectFile
    \/ ScanBegin
    \/ ScanStep
    \/ DetectOutput
    \/ ReportOutput
    \/ \E t \in Threads : ThreadReset(t)
    \/ \E t \in Threads : ThreadRead(t)
    \/ \E t \in Threads : ThreadDetect(t)
    \/ \E t \in Threads : ThreadReturn(t)
    \/ ModernizeMainReject
    \/ ModernizeMainExit
    \/ DetectMainReject
    \/ DetectMainExit
    \/ TidyCheckInstalled
    \/ TidyFind
    \/ TidyRunOnFile
    \/ TidyFinish

Spec == Init /\ [][Next]_vars

(***************************************************************************)
(* Properties.                                                             *)
(***************************************************************************)
Running == pc \in {"null", "typedef", "explicit", "explicit_track", "explicit_rewrite",
                   "explicit_close", "zero", "compare", "backup", "write"}

\* a pass has returned and the next one has not yet looked at a line
AfterPass(next) == pc = next /\ i = 1 /\ Len(result) = 0

ReplacementsOf(reason) ==
    {n \in 1..Len(replacements) : replacements[n].reason = reason}

\* C1: the pipeline is idempotent: run on the lines a former run of the pipeline
\* returned, it logs no Replacement and changes no line.
C1_Idempotent ==
    (/\ pc = "compare"
     /\ produced[filepath].ran
     /\ original_lines = ReadLines(WriteLines(produced[filepath].lines)))
    => (Len(replacements) = 0 /\ lines = original_lines)

\* the last and the first Replacement logged for line n
LastReplacementOf(n) ==
    CHOOSE m \in 1..Len(replacements) :
        /\ replacements[m].line_num = n
        /\ \A j \in (m + 1)..Len(replacements) : replacements[j].line_num # n

FirstReplacementOf(n) ==
    CHOOSE m \in 1..Len(replacements) :
        /\ replacements[m].line_num = n
        /\ \A j \in 1..(m - 1) : replacements[j].line_num # n

\* C2: no pass splits, merges, drops or reorders lines: after each pass there are as
\* many lines as were read, each of them is one line of text, and line n is the
\* line n that was read or the new text of the last Replacement logged for line n,
\* whose first Replacement starts from the line that was read.
C2_LinePreserved ==
    (AfterPass("typedef") \/ AfterPass("explicit") \/ AfterPass("zero") \/ pc = "compare")
    => /\ Len(lines) = Len(original_lines)
       /\ ReadLines(WriteLines(lines)) = lines
       /\ \A n \in 1..Len(lines) :
              IF \E m \in 1..Len(replacements) : replacements[m].line_num = n
              THEN /\ replacements[LastReplacementOf(n)].new_text = lines[n]
                   /\ replacements[FirstReplacementOf(n)].old_text = original_lines[n]
              ELSE lines[n] = original_lines[n]

\* a file of several lines has been read and the typedef pass has rewritten one of them
C2_Witness ==
    /\ AfterPass("explicit")
    /\ Len(original_lines) >= 2
    /\ ReplacementsOf(ReasonTypedef) # {}
    /\ lines # original_lines

\* the rank of a pass when the zero-pointer pass is the third and explicit the fourth
ClaimedPassRank(reason) ==
    IF reason = ReasonNull THEN 1
    ELSE IF reason = ReasonTypedef THEN 2
    ELSE IF reason = ReasonZero THEN 3
    ELSE 4

\* C3, with the zero-pointer pass before the explicit pass: the log is ordered by
\* the pass order NULL, typedef, zero-pointer, explicit and then by line number,
\* so every zero-pointer Replacement precedes every explicit Replacement.
C3_ClaimedOrder ==
    \A m, n \in 1..Len(replacements) :
        m < n =>
            \/ ClaimedPassRank(replacements[m].reason) < ClaimedPassRank(replacements[n].reason)
            \/ /\ replacements[m].reason = replacements[n].reason
               /\ replacements[m].line_num < replacements[n].line_num

\* the rank of a pass in the order modernize_file calls them
PassRank(reason) ==
    IF reason = ReasonNull THEN 1
    ELSE IF reason = ReasonTypedef THEN 2
    ELSE IF reason = ReasonExplicit THEN 3
    ELSE 4

\* the rank of the pass that runs, 4 once the passes are over
PcRank ==
    IF pc = "null" THEN 1
    ELSE IF pc = "typedef" THEN 2
    ELSE IF pc \in {"explicit", "explicit_track", "explicit_rewrite", "explicit_close"} THEN 3
    ELSE 4

\* C3, with the order of modernize_file: the passes run in the order NULL, typedef,
\* explicit, zero-pointer, and the log is ordered by that pass order and then by
\* ascending line number, so every explicit Replacement precedes every
\* zero-pointer Replacement.
C3_LogOrder ==
    /\ \A m, n \in 1..Len(replacements) :
           m < n =>
               \/ PassRank(replacements[m].reason) < PassRank(replacements[n].reason)
               \/ /\ replacements[m].reason = replacements[n].reason
                  /\ replacements[m].line_num < replacements[n].line_num
    /\ Running => \A m \in 1..Len(replacements) : PassRank(replacements[m].reason) <= PcRank

\* the log holds an explicit Replacement and a zero-pointer Replacement
C3_Witness ==
    /\ pc = "compare"
    /\ ReplacementsOf(ReasonExplicit) # {}
    /\ ReplacementsOf(ReasonZero) # {}

\* the paths detect_file is called on
Scanned == IF target = "dir" THEN PathSet ELSE {target}

\* the violations found on line n of path p
ViolationsAt(p, n) ==
    {j \in 1..Len(main_violations) :
        main_violations[j].file = p /\ main_violations[j].line = n}

ES47At(p, n) ==
    {j \in ViolationsAt(p, n) :
        main_violations[j].rule = "ES.47" /\ main_violations[j].severity = Important}

NullUsageAt(p, n) == {j \in ES47At(p, n) : main_violations[j].message = "NULL"}

ReplacementsAt(n) == {m \in 1..Len(replacements) : replacements[m].line_num = n}

\* C4, for every line: a line whose code segment holds the word NULL gets exactly one
\* Important ES.47 violation from detect_file, and pass 1 rewrites it, NULL
\* becoming nullptr, and logs exactly one Replacement for it.
C4_Original ==
    /\ (tool \in {"detect", "report"} /\ pc = "output") =>
           \A p \in Scanned :
               disk[p].readable =>
                   \A n \in 1..Len(ReadLines(disk[p].text)) :
                       HasNull(CodePart(ReadLines(disk[p].text)[n])) =>
                           Cardinality(ES47At(p, n)) = 1
    /\ AfterPass("typedef") =>
           \A n \in 1..Len(original_lines) :
               HasNull(CodePart(original_lines[n])) =>
                   /\ lines[n] # original_lines[n]
                   /\ ~HasNull(lines[n])
                   /\ Cardinality(ReplacementsAt(n)) = 1

\* C4, with the comment guard of pass 1 and the second ES.47 pattern: a line whose
\* code segment holds the word NULL gets exactly one NULL-usage violation
\* (Important, ES.47) from detect_file, and one more ES.47
\* violation exactly when the code segment also assigns 0 to a pointer; pass 1
\* rewrites the line, every word NULL becoming nullptr, and logs exactly one
\* Replacement for it when the line holds neither // nor /*, and otherwise leaves
\* the line as it is and logs nothing.
C4_NullRule ==
    /\ (tool \in {"detect", "report"} /\ pc = "output") =>
           \A p \in Scanned :
               disk[p].readable =>
                   \A n \in 1..Len(ReadLines(disk[p].text)) :
                       LET code == CodePart(ReadLines(disk[p].text)[n])
                       IN  HasNull(code) =>
                               /\ Cardinality(NullUsageAt(p, n)) = 1
                               /\ Cardinality(ES47At(p, n)) =
                                      IF HasPtrZeroAssign(code) THEN 2 ELSE 1
    /\ AfterPass("typedef") =>
           \A n \in 1..Len(original_lines) :
               HasNull(CodePart(original_lines[n])) =>
                   IF Contains(original_lines[n], "//") \/ Contains(original_lines[n], "/*")
                   THEN lines[n] = original_lines[n] /\ ReplacementsAt(n) = {}
                   ELSE /\ lines[n] # original_lines[n]
                        /\ ~HasNull(lines[n])
                        /\ Contains(lines[n], "nullptr")
                        /\ Cardinality(ReplacementsAt(n)) = 1
                        /\ \A m \in ReplacementsAt(n) :
                               replacements[m] =
                                   Replacement(n, original_lines[n], lines[n], ReasonNull)

\* pass 1 has rewritten a line whose code segment holds NULL
C4_Witness ==
    /\ AfterPass("typedef")
    /\ \E n \in 1..Len(original_lines) :
           /\ HasNull(CodePart(original_lines[n]))
           /\ lines[n] # original_lines[n]
           /\ ReplacementsAt(n) # {}

\* C5: the explicit pass rewrites a line, and logs a Replacement, only while the
\* scope is inside a type and the access level is public.
C5_ExplicitOnlyPublic ==
    [][(/\ pc = "explicit_rewrite"
        /\ \/ replacements' # replacements
           \/ result'[Len(result')] # lines[i])
       => (in_class /\ access_level = "public")]_vars

\* the explicit pass has rewritten a line in a class with an access label
C5_Witness ==
    /\ pc = "explicit_close"
    /\ result[i] # lines[i]
    /\ original_lines[1] = "class Foo {\n"
    /\ i >= 3

ScopeExample == <<"class Foo {\n", "public:\n", "    Foo(int x) { }\n", "};\n">>

\* C6: on the four lines of the scope example the explicit pass rewrites line 3 to
\* "    explicit Foo(int x) { }", leaves lines 1, 2 and 4 as they are, logs exactly
\* one Replacement, and ends with the tracker outside of any type.
C6_ScopeExample ==
    (/\ original_lines = ScopeExample
     /\ AfterPass("zero")
     /\ calls = 1)
    => /\ lines = <<"class Foo {\n", "public:\n", "    explicit Foo(int x) { }\n", "};\n">>
       /\ Len(replacements) = 1
       /\ replacements[1].line_num = 3
       /\ replacements[1].reason = ReasonExplicit
       /\ in_class = FALSE

\* the explicit pass has run over the scope example
C6_Witness ==
    /\ original_lines = ScopeExample
    /\ AfterPass("zero")
    /\ calls = 1
    /\ Len(replacements) = 1

\* C7: the list a consumer gets is ordered by severity rank, Critical first, then by
\* file, then by ascending line number.
C7_HandedSorted ==
    pc = "done" =>
        \A a, b \in 1..Len(handed) :
            a < b =>
                \/ SeverityRank(handed[a].severity) < SeverityRank(handed[b].severity)
                \/ /\ handed[a].severity = handed[b].severity
                   /\ \/ PathRank(handed[a].file) < PathRank(handed[b].file)
                      \/ /\ handed[a].file = handed[b].file
                         /\ handed[a].line <= handed[b].line

\* no pattern of a detection rule or of a rewrite pass matches in the line
NoPattern(line) ==
    /\ ~HasNew(line)
    /\ ~HasDelete(line)
    /\ ~HasNull(line)
    /\ ~HasPtrZeroAssign(line)
    /\ ~HasCStyleCast(line)
    /\ ~HasTypedef(line)
    /\ ~IsPrimitiveFunction(line)
    /\ ~HasIndexLoop(line)
    /\ ~HasPointerReturn(line)
    /\ ~HasCArray(line)
    /\ ~TypedefMatch(line).matched
    /\ ~CtorMatch(line).matched
    /\ ~HasPtrZero(line)

NoPatternFile(ls) == \A n \in 1..Len(ls) : NoPattern(ls[n])

\* C8: a file no line of which matches a detection rule or a rewrite pass gives an
\* empty violation list, and modernize_file leaves its lines as they are, logs
\* nothing, returns False, and neither writes the file nor makes a backup.
C8_NoMatchFrame ==
    /\ [](/\ (/\ tool \in {"detect", "report"}
              /\ pc \in {"output", "done"}
              /\ \A p \in Scanned :
                     disk[p].readable => NoPatternFile(ReadLines(disk[p].text)))
             => (Len(main_violations) = 0 /\ Len(violations) = 0 /\ Len(handed) = 0)
          /\ (/\ tool = "modernize"
              /\ calls >= 1
              /\ disk[filepath].readable
              /\ ~(/\ Len(replacements) = 0
                   /\ pc \notin {"backup", "write"}
                   /\ pc \in {"compare", "idle"} => lines = original_lines
                   /\ pc = "idle" => ret = "False"
                   /\ disk[filepath].text = WriteLines(original_lines)))
             => ~NoPatternFile(original_lines))
    /\ [][(Running /\ (disk' # disk \/ bak' # bak)) => ~NoPatternFile(original_lines)]_vars

\* modernize_file has returned from a file of several lines that match nothing
C8_Witness ==
    /\ tool = "modernize"
    /\ pc = "idle"
    /\ calls = 1
    /\ disk[filepath].readable
    /\ Len(original_lines) >= 2
    /\ NoPatternFile(original_lines)
    /\ ret = "False"

\* C9: in a dry run the file is never written and no backup is made; the file is
\* written only when a line has changed; and when a backup is asked for, the .bak
\* file holds the text of the file before the file is written.
C9_WriteProtocol ==
    [][/\ dry_run => (disk' = disk /\ bak' = bak)
       /\ disk' # disk =>
              /\ lines # original_lines
              /\ disk' = [disk EXCEPT ![filepath].text = WriteLines(lines)]
              /\ backup => (bak[filepath] = disk[filepath].text /\ bak' = bak)
       /\ bak' # bak =>
              /\ backup
              /\ lines # original_lines
              /\ disk' = disk
              /\ bak' = [bak EXCEPT ![filepath] = disk[filepath].text]]_vars

\* the file has been written after its backup
C9_Witness ==
    /\ pc = "idle"
    /\ ret = "True"
    /\ backup
    /\ ~dry_run
    /\ bak[filepath] # None
    /\ bak[filepath] # disk[filepath].text
    /\ disk[filepath].text = WriteLines(lines)

\* the violations of the readable files of a listing, in the order of the listing
RECURSIVE ReadableResults(_)
ReadableResults(listing) ==
    IF Len(listing) = 0 THEN <<>>
    ELSE (IF disk[Head(listing)].readable
          THEN DetectLines(Head(listing), ReadLines(disk[Head(listing)].text))
          ELSE <<>>)
         \o ReadableResults(Tail(listing))

\* C10: a file of the scan that cannot be read gives an empty list, the scan goes
\* on over every file after it, and the result of the batch is the concatenation
\* of the results of the readable files.
C10_ScanContained ==
    /\ pc = "scan" =>
           /\ all_violations = ReadableResults(SubSeq(cpp_files, 1, k - 1))
           /\ (k > 1 /\ ~disk[cpp_files[k - 1]].readable) => Len(violations) = 0
    /\ (pc = "output" /\ target = "dir") =>
           /\ k = Len(cpp_files) + 1
           /\ main_violations = ReadableResults(cpp_files)

\* the scan is over: its first file could not be read, a later one gave violations
C10_Witness ==
    /\ pc = "output"
    /\ target = "dir"
    /\ ~disk[cpp_files[1]].readable
    /\ disk[cpp_files[2]].readable
    /\ Len(main_violations) > 0

\* the warnings of the files of the log on which the tool ran to its end
RECURSIVE TakenWarnings(_)
TakenWarnings(log) ==
    IF Len(log) = 0 THEN <<>>
    ELSE (IF Head(log).success THEN parse_output(Head(log).output) ELSE <<>>)
         \o TakenWarnings(Tail(log))

\* C11: without clang-tidy the run ends with a status other than 0 before
\* run_on_file is called on any file; a file on which the tool times out is
\* recorded as a failure, no warning is taken from it, and run_on_file is still
\* called on every file after it.
C11_LinterProtocol ==
    tool = "tidy" =>
        /\ ~installed => (Len(run_log) = 0 /\ pc \in {"start", "exited"}
                          /\ (pc = "exited" => exit_code > 0))
        /\ \A n \in 1..Len(run_log) :
               /\ run_log[n].file = cpp_files[n]
               /\ run_log[n].errors = "timeout (>60 s)" =>
                      (~run_log[n].success /\ run_log[n].output = "")
        /\ pc = "run" => Len(run_log) = k - 1
        /\ (installed /\ pc = "exited" /\ Len(cpp_files) > 0) =>
               (Len(run_log) = Len(cpp_files) /\ exit_code = 0)
        /\ all_warnings = TakenWarnings(run_log)

\* the tool timed out on the first file and gave warnings for the second
C11_Witness ==
    /\ tool = "tidy"
    /\ pc = "exited"
    /\ Len(run_log) = 2
    /\ run_log[1].errors = "timeout (>60 s)"
    /\ run_log[2].success
    /\ Len(all_warnings) > 0

\* the path argument is missing or names no file (for detect_violations.py: no
\* file and no directory)
InvalidPath ==
    \/ target \in {NoArg, NotAFile}
    \/ tool = "modernize" /\ target = "dir"

\* C12: detect_violations.main and modernize_code.main end with a status other
\* than 0 when the path argument is missing or invalid, and with status 0 in
\* every other case.
C12_ExitStatus ==
    (tool \in {"detect", "modernize"} /\ pc = "exited") => (exit_code # 0 <=> InvalidPath)

\* C13: of two detect_file invocations that run interleaved on one
\* ViolationDetector, each returns exactly the violations of its own file, the
\* list it returns when it runs alone.
C13_OwnViolations ==
    tool = "parallel" =>
        \A t \in Threads :
            tpc[t].at = "returned" => heap[tret[t]] = DetectFile(Paths[t])

\* the line a pass of one step per line puts out in this step
StepOutput == IF i >= Len(lines) THEN lines'[i] ELSE result'[i]

\* indentations, types and names of typedef lines
TypedefShapes ==
    {<<ind, "int", "T">> : ind \in Indents}
    \cup {<<ind, "unsigned long", "ULong">> : ind \in Indents}
    \cup {<<ind, "nullptr", "T">> : ind \in Indents}

Finding(v) == [file |-> v.file, line |-> v.line, severity |-> v.severity,
               rule |-> v.rule, message |-> v.message]

\* the findings of line n among the violations vs, in order
FindingsAt(vs, n) ==
    LET at == SelectSeq(vs, LAMBDA v : v.line = n)
    IN  [j \in 1..Len(at) |-> Finding(at[j])]

\* the lines ls with line n cut before its first //
CutComment(ls, n) == [ls EXCEPT ![n] = CodePart(ls[n])]

\* C15: each detection rule looks at the code segment of the line only: the
\* violations of a line are those of the line cut before its first //, the
\* following line being the same, so a comment neither causes nor suppresses a
\* violation.
C15_CodeSegmentOnly ==
    (tool = "detect" /\ pc = "output" /\ target \in PathSet /\ disk[target].readable) =>
        \A n \in 1..Len(ReadLines(disk[target].text)) :
            FindingsAt(main_violations, n)
                = FindingsAt(DetectLines(target, CutComment(ReadLines(disk[target].text), n)), n)

\* the keyword of a line that opens a type: the word the line starts with
OpenerKeyword(line) ==
    IF Lit(line, Skip(line, 1, SpaceCh), "class") THEN "class" ELSE "struct"

\* the access label the line starts with, "" when it starts with none
LabelOf(line) ==
    IF IsLabel(line, "public") THEN "public"
    ELSE IF IsLabel(line, "private") THEN "private"
    ELSE IF IsLabel(line, "protected") THEN "protected"
    ELSE ""

\* C16: a line that opens a type puts the tracker inside the type with access
\* private for the keyword class and public for struct, whatever else the line
\* holds; an access label sets the access level to the label; a closing }; inside
\* a type puts the tracker outside; every other line leaves the state as it is.
C16_TrackerTransitions ==
    [][/\ pc = "explicit_track" =>
              IF IsTypeOpener(lines[i])
              THEN /\ in_class'
                   /\ access_level' = IF OpenerKeyword(lines[i]) = "class"
                                      THEN "private" ELSE "public"
              ELSE IF LabelOf(lines[i]) # ""
              THEN in_class' = in_class /\ access_level' = LabelOf(lines[i])
              ELSE in_class' = in_class /\ access_level' = access_level
       /\ pc = "explicit_close" =>
              /\ access_level' = access_level
              /\ in_class' = IF in_class /\ IsTypeEnd(lines[i]) THEN FALSE ELSE in_class
       /\ pc = "explicit_rewrite" => (in_class' = in_class /\ access_level' = access_level)]_vars

\* the reason tag of the pass that runs
ReasonOfPass ==
    IF pc = "null" THEN ReasonNull
    ELSE IF pc = "typedef" THEN ReasonTypedef
    ELSE IF pc = "zero" THEN ReasonZero
    ELSE ReasonExplicit

\* the line the pass that runs puts out for line i in this step
PassOutput == IF pc = "explicit_rewrite" THEN result'[i] ELSE StepOutput

\* C17: a pass logs a Replacement for line i exactly when the text it puts out
\* for line i differs from the text it got, the entry holds the line number, the
\* text it got, the text it puts out and the reason of the pass, and the log
\* holds at most one entry for a pass and a line.
C17_LogFaithful ==
    /\ [](\A m, n \in 1..Len(replacements) :
              (replacements[m].reason = replacements[n].reason
               /\ replacements[m].line_num = replacements[n].line_num) => m = n)
    /\ [][(pc \in {"null", "typedef", "zero", "explicit_rewrite"} /\ Len(lines) > 0) =>
             IF PassOutput # lines[i]
             THEN replacements' =
                      Append(replacements,
                             Replacement(i, lines[i], PassOutput, ReasonOfPass))
             ELSE replacements' = replacements]_vars

\* two passes have each logged a Replacement for the same line, another line is
\* as it was read
C17_Witness ==
    /\ pc = "compare"
    /\ \E m, n \in 1..Len(replacements) :
           /\ m < n
           /\ replacements[m].line_num = replacements[n].line_num
           /\ replacements[m].reason # replacements[n].reason
    /\ \E n \in 1..Len(lines) : lines[n] = original_lines[n]

\* C18: on a line that assigns 0 to a pointer target and 0 to a name that is no
\* pointer target, the zero-pointer pass rewrites the pointer assignment only.
C18_OnlyPointerTarget ==
    [][(pc = "zero" /\ Len(lines) > 0) =>
          \A ind \in Indents :
              lines[i] = ind \o "*p = 0; n = 0;\n"
              => StepOutput = ind \o "*p = nullptr; n = 0;\n"]_vars

(***************************************************************************)
(* The pipeline of modernize_file as a function of the lines read, as a    *)
(* CodeModernizer that has processed no file before computes it.           *)
(***************************************************************************)

\* _replace_null_with_nullptr on a new instance: the lines and the log
FreshNull(ls) ==
    [lines |-> [n \in 1..Len(ls) |-> ReplaceNullLine(n, ls[n]).new_line],
     log |-> Flatten([n \in 1..Len(ls) |-> ReplaceNullLine(n, ls[n]).repl])]

\* _replace_typedef_with_using
FreshTypedef(ls) ==
    [lines |-> [n \in 1..Len(ls) |-> ReplaceTypedefLine(n, ls[n]).new_line],
     log |-> Flatten([n \in 1..Len(ls) |-> ReplaceTypedefLine(n, ls[n]).repl])]

\* _add_explicit_to_constructors from line n on, the tracker being <<inClass, access>>
RECURSIVE FreshExplicitFrom(_, _, _, _)
FreshExplicitFrom(ls, n, inClass, access) ==
    IF n > Len(ls) THEN [lines |-> <<>>, log |-> <<>>]
    ELSE LET scope == TrackScope(ls[n], inClass, access)
             r == AddExplicitLine(n, ls[n], scope[1], scope[2])
             rest == FreshExplicitFrom(ls, n + 1, CloseScope(ls[n], scope[1]), scope[2])
         IN  [lines |-> <<r.new_line>> \o rest.lines, log |-> r.repl \o rest.log]

\* _replace_zero_nullptr
FreshZero(ls) ==
    [lines |-> [n \in 1..Len(ls) |-> ReplaceZeroLine(n, ls[n]).new_line],
     log |-> Flatten([n \in 1..Len(ls) |-> ReplaceZeroLine(n, ls[n]).repl])]

\* modernize_file, lines 52-58, on a new instance
FreshPipeline(ls) ==
    LET p1 == FreshNull(ls)
        p2 == FreshTypedef(p1.lines)
        p3 == FreshExplicitFrom(p2.lines, 1, FALSE, "private")
        p4 == FreshZero(p3.lines)
    IN  [lines |-> p4.lines, log |-> p1.log \o p2.log \o p3.log \o p4.log]

\* C19: no state crosses files: after an instance has processed a file A, what it
\* produces for the next file B, violations, rewritten lines and replacement
\* log, is what a new instance produces for B, whatever A was.
C19_NoStateAcrossFiles ==
    /\ (tool = "modernize" /\ calls >= 2 /\ pc = "compare") =>
           /\ lines = FreshPipeline(original_lines).lines
           /\ replacements = FreshPipeline(original_lines).log
    /\ (tool = "modernize" /\ calls >= 2 /\ pc = "idle" /\ ~disk[filepath].readable) =>
           Len(replacements) = 0
    /\ (tool \in {"detect", "report"} /\ pc = "scan" /\ k > 2) =>
           violations = DetectFile(cpp_files[k - 1])
====
